---------------------------- MODULE Spec2Model ----------------------------
(***************************************************************************)
(* State-machine model of the todo service in src/PythonProject3/app:      *)
(* the table of TodoModel rows, the request handlers of main.py and the    *)
(* payload schemas of schemas.py.                                          *)
(*                                                                         *)
(* An optional value (a nullable column, a JSON field that may be null)    *)
(* is a sequence of length at most one: <<>> is None/NULL, <<v>> is v.     *)
(* A request payload is a function from the field names that are present   *)
(* in the JSON body to such optional values, so that "omitted" and         *)
(* "explicit null" are different payloads.                                 *)
(***************************************************************************)
EXTENDS Integers, Sequences, FiniteSets, TLC

VARIABLES
    store,     \* the rows of table "todos": a set of TodoModel records
    now,       \* the clock read by func.now() and datetime.now()
    started,   \* whether the startup hook of the running process has run
    writes,    \* number of requests that changed the table (bounds the runs)
    resp,      \* the last request handled and the response it got
    snaps      \* history: each soft-deleted row as it was before its delete

vars == <<store, now, started, writes, resp, snaps>>

-----------------------------------------------------------------------------
(* Bounds of the model *)

\* the clock takes the values 0 .. MaxTime
MaxTime == 1
\* table-changing requests in a run of Spec
MaxWrites == 1
\* table-changing requests in a run of SpecLife
MaxLife == 2
\* table-changing requests in a run of SpecSeed
MaxFlips == 5
\* table-changing requests in a run of SpecRead
MaxReadWrites == 1

-----------------------------------------------------------------------------
(* schemas.py *)

HIGH == 1
MEDIUM == 2
LOW == 3
Priority == {HIGH, MEDIUM, LOW}

TodoStatus == {"NEW", "IN_PROGRESS", "DONE"}

SortBy == {"todo_id", "todo_name", "priority", "status", "due_date",
           "created_at", "updated_at"}
OrderBy == {"asc", "desc"}
ExportFormat == {"json", "csv"}

NameMinLen == 3
NameMaxLen == 512
DescMinLen == 1
DescMaxLen == 2000
LimitMin == 1
LimitMax == 100
LimitDefault == 10
QMinLen == 1
QMaxLen == 100

Null == <<>>
Some(v) == <<v>>
IsNull(o) == o = <<>>
Val(o) == o[1]

PayloadFields == {"todo_name", "todo_description", "priority", "status", "due_date"}

Has(data, f) == f \in DOMAIN data

\* the value a TodoBase payload gives field f: the field's default when omitted
Given(data, f, default) == IF Has(data, f) THEN data[f] ELSE default

\* a TodoBase whose priority is a plain int
ValidBaseIntPriority(data) ==
    /\ Has(data, "todo_name") /\ ~IsNull(data["todo_name"])
    /\ Len(Val(data["todo_name"])) >= NameMinLen
    /\ Len(Val(data["todo_name"])) <= NameMaxLen
    /\ Has(data, "todo_description") /\ ~IsNull(data["todo_description"])
    /\ Len(Val(data["todo_description"])) >= DescMinLen
    /\ Len(Val(data["todo_description"])) <= DescMaxLen
    /\ Has(data, "priority") => ~IsNull(data["priority"])
    /\ Has(data, "status") =>
          ~IsNull(data["status"]) /\ Val(data["status"]) \in TodoStatus

\* TodoBase (TodoCreate, TodoReplace): name and description are required,
\* priority and status may be omitted but not null, due_date may be null
ValidBase(data) ==
    /\ Has(data, "todo_name") /\ ~IsNull(data["todo_name"])
    /\ Len(Val(data["todo_name"])) >= NameMinLen
    /\ Len(Val(data["todo_name"])) <= NameMaxLen
    /\ Has(data, "todo_description") /\ ~IsNull(data["todo_description"])
    /\ Len(Val(data["todo_description"])) >= DescMinLen
    /\ Len(Val(data["todo_description"])) <= DescMaxLen
    /\ Has(data, "priority") =>
          ~IsNull(data["priority"]) /\ Val(data["priority"]) \in Priority
    /\ Has(data, "status") =>
          ~IsNull(data["status"]) /\ Val(data["status"]) \in TodoStatus

\* TodoUpdate: every field Optional with default None; the constraints bind
\* only a value that is not None
ValidUpdate(data) ==
    /\ (Has(data, "todo_name") /\ ~IsNull(data["todo_name"])) =>
          /\ Len(Val(data["todo_name"])) >= NameMinLen
          /\ Len(Val(data["todo_name"])) <= NameMaxLen
    /\ (Has(data, "todo_description") /\ ~IsNull(data["todo_description"])) =>
          /\ Len(Val(data["todo_description"])) >= DescMinLen
          /\ Len(Val(data["todo_description"])) <= DescMaxLen
    /\ (Has(data, "priority") /\ ~IsNull(data["priority"])) =>
          Val(data["priority"]) \in Priority
    /\ (Has(data, "status") /\ ~IsNull(data["status"])) =>
          Val(data["status"]) \in TodoStatus

\* TodoStatusUpdate: status is required and not null
ValidStatusUpdate(data) ==
    /\ Has(data, "status") /\ ~IsNull(data["status"])
    /\ Val(data["status"]) \in TodoStatus

-----------------------------------------------------------------------------
(* models.py and the table *)

\* TodoModel(...) as the INSERT stores it: the primary key and the two
\* server_default timestamps are assigned by the database
TodoModel(id, name, description, priority, status, due_date) ==
    [todo_id |-> id, todo_name |-> name, todo_description |-> description,
     priority |-> priority, status |-> status, due_date |-> due_date,
     is_deleted |-> FALSE, created_at |-> now, updated_at |-> now]

\* the columns declared nullable=False that a handler can assign
NotNullOk(todo) ==
    /\ ~IsNull(todo.todo_name)
    /\ ~IsNull(todo.todo_description)
    /\ ~IsNull(todo.status)

MaxOf(S) == CHOOSE m \in S : \A x \in S : x <= m

\* a key taken from the rows that are not soft-deleted
NextIdActive(s) ==
    IF {r \in s : ~r.is_deleted} = {} THEN 1
    ELSE MaxOf({r.todo_id : r \in {x \in s : ~x.is_deleted}}) + 1

\* the integer primary key the database gives the next inserted row
NextId(s) == IF s = {} THEN 1 ELSE MaxOf({r.todo_id : r \in s}) + 1

\* db.add(new); db.commit(): one INSERT
Insert(s, todo) == s \cup {todo}

\* an UPDATE that leaves updated_at alone (no onupdate)
FlushKeepsStamp(s, old, new) == (s \ {old}) \cup {new}

\* db.commit() after attribute assignments on a loaded row: the UPDATE is
\* emitted only when a column value differs from the loaded one, and an
\* emitted UPDATE sets updated_at (onupdate=func.now())
Flush(s, old, new) ==
    IF new = old THEN s
    ELSE (s \ {old}) \cup {[new EXCEPT !.updated_at = now]}

-----------------------------------------------------------------------------
(* main.py: helpers *)

API_KEY == "name_here"

\* a check that lets a request without the header through
KeyOkOrAbsent(x_api_key) == x_api_key = API_KEY \/ x_api_key = ""

\* require_api_key: the header defaults to "" when absent
KeyOk(x_api_key) == x_api_key = API_KEY

\* a lookup that never filters on is_deleted
LookupAny(s, todo_id, include_deleted) == {r \in s : r.todo_id = todo_id}

\* get_or_404: the set holding the row found, empty when the handler raises 404
Lookup(s, todo_id, include_deleted) ==
    {r \in s : r.todo_id = todo_id /\ (include_deleted \/ ~r.is_deleted)}

\* Path(..., ge=1)
ValidPath(todo_id) == todo_id >= 1

\* the query parameters of GET /todos, /todos/export and /todos/stats at
\* their defaults; an Optional parameter that is not sent is Null
NoQuery ==
    [limit |-> LimitDefault, offset |-> 0, priority |-> Null, status |-> Null,
     q |-> Null, overdue |-> FALSE, sort_by |-> "todo_id", order |-> "asc",
     include_deleted |-> FALSE, format |-> "json"]

NoStats == [total |-> 0, high |-> 0, medium |-> 0, low |-> 0]

\* a request (route, X-API-Key header, path id, body) and the response it
\* got (status code, the rows returned); changed: the handler's commit
\* changed the table
Response(op, key, todo_id, data, status, body) ==
    [op |-> op, key |-> key, todo_id |-> todo_id, data |-> data,
     status |-> status, body |-> body, changed |-> FALSE,
     stats |-> NoStats, query |-> NoQuery]

NoResp == Response("none", "", 0, <<>>, 0, <<>>)

\* a request that is answered without a commit
Reply(r) ==
    /\ resp' = r
    /\ UNCHANGED <<store, now, started, writes, snaps>>

\* a request whose handler committed table s2
Commit(s2, r, sn) ==
    /\ store' = s2
    /\ resp' = [r EXCEPT !.changed = (s2 # store)]
    /\ snaps' = sn
    /\ writes' = IF s2 = store THEN writes ELSE writes + 1
    /\ UNCHANGED <<now, started>>

-----------------------------------------------------------------------------
(* main.py: startup *)

SeedRows(first) ==
    { TodoModel(first,     Some("Sports"), Some("Go to the Gym"), MEDIUM, Some("IN_PROGRESS"), Null),
      TodoModel(first + 1, Some("Clean house"), Some("Cleaning the house thoroughly"), HIGH, Some("NEW"), Null),
      TodoModel(first + 2, Some("Read"), Some("Read chapter 5 of the book"), LOW, Some("DONE"), Null),
      TodoModel(first + 3, Some("Work"), Some("Complete project documentation"), MEDIUM, Some("NEW"), Some(now)),
      TodoModel(first + 4, Some("Study"), Some("Prepare for upcoming exam"), LOW, Some("NEW"), Null) }

\* a seed that looks for any row, soft-deleted or not
seed_if_empty(s) == IF s # {} THEN s ELSE s \cup SeedRows(NextId(s))

\* seed_data: the table after the startup hook
seed_data(s) ==
    IF \E r \in s : ~r.is_deleted THEN s ELSE s \cup SeedRows(NextId(s))

\* the process starts (again): the startup hook runs before any request
Startup ==
    /\ store' = seed_data(store)
    /\ started' = TRUE
    /\ resp' = [NoResp EXCEPT !.op = "startup"]
    /\ UNCHANGED <<now, writes, snaps>>

\* the clock advances
Tick ==
    /\ now < MaxTime
    /\ now' = now + 1
    /\ UNCHANGED <<store, started, writes, resp, snaps>>

-----------------------------------------------------------------------------
(* main.py: the mutating routes *)

\* POST /todos
create_todo(x_api_key, data) ==
    /\ started
    /\ IF ~KeyOk(x_api_key)
       THEN Reply(Response("create", x_api_key, 0, data, 401, <<>>))
       ELSE IF ~ValidBase(data)
       THEN Reply(Response("create", x_api_key, 0, data, 422, <<>>))
       ELSE LET new_todo == TodoModel(NextId(store),
                                data["todo_name"],
                                data["todo_description"],
                                Val(Given(data, "priority", Some(LOW))),
                                Given(data, "status", Some("NEW")),
                                Given(data, "due_date", Null))
            IN Commit(Insert(store, new_todo),
                      Response("create", x_api_key, new_todo.todo_id, data, 201, <<new_todo>>),
                      snaps)

\* a delete that also marks the todo as done
DeletedAsDone(todo) == [todo EXCEPT !.is_deleted = TRUE, !.status = Some("DONE")]

\* todo.is_deleted = True
Deleted(todo) == [todo EXCEPT !.is_deleted = TRUE]

\* todo.is_deleted = False
Restored(todo) == [todo EXCEPT !.is_deleted = FALSE]

\* DELETE /todos/{todo_id}
delete_todo(x_api_key, todo_id) ==
    /\ started
    /\ IF ~KeyOk(x_api_key)
       THEN Reply(Response("delete", x_api_key, todo_id, <<>>, 401, <<>>))
       ELSE IF ~ValidPath(todo_id)
       THEN Reply(Response("delete", x_api_key, todo_id, <<>>, 422, <<>>))
       ELSE IF Lookup(store, todo_id, FALSE) = {}
       THEN Reply(Response("delete", x_api_key, todo_id, <<>>, 404, <<>>))
       ELSE LET todo == CHOOSE r \in Lookup(store, todo_id, FALSE) : TRUE
                s2 == Flush(store, todo, Deleted(todo))
            IN Commit(s2,
                      Response("delete", x_api_key, todo_id, <<>>, 204, <<>>),
                      {x \in snaps : x.todo_id # todo_id} \cup {todo})

\* POST /todos/{todo_id}/restore
restore_todo(x_api_key, todo_id) ==
    /\ started
    /\ IF ~KeyOk(x_api_key)
       THEN Reply(Response("restore", x_api_key, todo_id, <<>>, 401, <<>>))
       ELSE IF ~ValidPath(todo_id)
       THEN Reply(Response("restore", x_api_key, todo_id, <<>>, 422, <<>>))
       ELSE IF Lookup(store, todo_id, TRUE) = {}
       THEN Reply(Response("restore", x_api_key, todo_id, <<>>, 404, <<>>))
       ELSE LET todo == CHOOSE r \in Lookup(store, todo_id, TRUE) : TRUE
                s2 == Flush(store, todo, Restored(todo))
                out == CHOOSE r \in Lookup(s2, todo_id, TRUE) : TRUE
            IN Commit(s2,
                      Response("restore", x_api_key, todo_id, <<>>, 200, <<out>>),
                      {x \in snaps : x.todo_id # todo_id})

\* PUT /todos/{todo_id}
replace_todo(x_api_key, todo_id, data) ==
    /\ started
    /\ IF ~KeyOk(x_api_key)
       THEN Reply(Response("replace", x_api_key, todo_id, data, 401, <<>>))
       ELSE IF ~ValidPath(todo_id) \/ ~ValidBase(data)
       THEN Reply(Response("replace", x_api_key, todo_id, data, 422, <<>>))
       ELSE IF Lookup(store, todo_id, FALSE) = {}
       THEN Reply(Response("replace", x_api_key, todo_id, data, 404, <<>>))
       ELSE LET todo == CHOOSE r \in Lookup(store, todo_id, FALSE) : TRUE
                new == [todo EXCEPT
                          !.todo_name = data["todo_name"],
                          !.todo_description = data["todo_description"],
                          !.priority = Val(Given(data, "priority", Some(LOW))),
                          !.status = Given(data, "status", Some("NEW")),
                          !.due_date = Given(data, "due_date", Null)]
                s2 == Flush(store, todo, new)
                out == CHOOSE r \in Lookup(s2, todo_id, TRUE) : TRUE
            IN Commit(s2,
                      Response("replace", x_api_key, todo_id, data, 200, <<out>>),
                      snaps)

\* the assignments of update_todo: the fields present in
\* payload.model_dump(exclude_unset=True) overwrite the row's
Assigned(todo, data) ==
    [todo EXCEPT
       !.todo_name = IF Has(data, "todo_name") THEN data["todo_name"] ELSE @,
       !.todo_description =
           IF Has(data, "todo_description") THEN data["todo_description"] ELSE @,
       !.priority =
           IF Has(data, "priority") /\ ~IsNull(data["priority"])
           THEN Val(data["priority"]) ELSE @,
       !.status = IF Has(data, "status") THEN data["status"] ELSE @,
       !.due_date = IF Has(data, "due_date") THEN data["due_date"] ELSE @]

\* int(data["priority"]) raises TypeError when the value is None
IntRaises(data) == Has(data, "priority") /\ IsNull(data["priority"])

\* PATCH /todos/{todo_id}
update_todo(x_api_key, todo_id, data) ==
    /\ started
    /\ IF ~KeyOk(x_api_key)
       THEN Reply(Response("update", x_api_key, todo_id, data, 401, <<>>))
       ELSE IF ~ValidPath(todo_id) \/ ~ValidUpdate(data)
       THEN Reply(Response("update", x_api_key, todo_id, data, 422, <<>>))
       ELSE IF Lookup(store, todo_id, FALSE) = {}
       THEN Reply(Response("update", x_api_key, todo_id, data, 404, <<>>))
       ELSE LET todo == CHOOSE r \in Lookup(store, todo_id, FALSE) : TRUE
                new == Assigned(todo, data)
            IN IF IntRaises(data) \/ ~NotNullOk(new)
               THEN \* TypeError, or IntegrityError at db.commit(): the session
                    \* is closed without a commit
                    Reply(Response("update", x_api_key, todo_id, data, 500, <<>>))
               ELSE LET s2 == Flush(store, todo, new)
                        out == CHOOSE r \in Lookup(s2, todo_id, TRUE) : TRUE
                    IN Commit(s2,
                              Response("update", x_api_key, todo_id, data, 200, <<out>>),
                              snaps)

\* PATCH /todos/{todo_id}/status
update_todo_status(x_api_key, todo_id, data) ==
    /\ started
    /\ IF ~KeyOk(x_api_key)
       THEN Reply(Response("status", x_api_key, todo_id, data, 401, <<>>))
       ELSE IF ~ValidPath(todo_id) \/ ~ValidStatusUpdate(data)
       THEN Reply(Response("status", x_api_key, todo_id, data, 422, <<>>))
       ELSE IF Lookup(store, todo_id, FALSE) = {}
       THEN Reply(Response("status", x_api_key, todo_id, data, 404, <<>>))
       ELSE LET todo == CHOOSE r \in Lookup(store, todo_id, FALSE) : TRUE
                s2 == Flush(store, todo, [todo EXCEPT !.status = data["status"]])
                out == CHOOSE r \in Lookup(s2, todo_id, TRUE) : TRUE
            IN Commit(s2,
                      Response("status", x_api_key, todo_id, data, 200, <<out>>),
                      snaps)

-----------------------------------------------------------------------------
(* main.py: the read routes *)

\* a query that forgets the is_deleted filter
VisibleAll(s, include_deleted) == s

\* query.filter(TodoModel.is_deleted == False) unless include_deleted
Visible(s, include_deleted) == {r \in s : include_deleted \/ ~r.is_deleted}

UpperCase == "ABCDEFGHIJKLMNOPQRSTUVWXYZ"
LowerCase == "abcdefghijklmnopqrstuvwxyz"

\* the lower-case letter of each upper-case letter
LowerOf ==
    [c \in {SubSeq(UpperCase, i, i) : i \in 1..Len(UpperCase)} |->
        LET i == CHOOSE j \in 1..Len(UpperCase) : SubSeq(UpperCase, j, j) = c
        IN SubSeq(LowerCase, i, i)]

LowerChar(c) == IF c \in DOMAIN LowerOf THEN LowerOf[c] ELSE c

RECURSIVE ToLower(_)
ToLower(str) ==
    IF str = "" THEN ""
    ELSE LowerChar(SubSeq(str, 1, 1)) \o ToLower(SubSeq(str, 2, Len(str)))

\* column.ilike("%q%") for a q that holds no % and no _
ILike(str, q) ==
    LET hay == ToLower(str)
        needle == ToLower(q)
    IN \E i \in 1..(Len(hay) - Len(needle) + 1) :
          SubSeq(hay, i, i + Len(needle) - 1) = needle

\* the filters of list_todos, combined conjunctively
Filtered(s, qy) ==
    {r \in Visible(s, qy.include_deleted) :
        /\ ~IsNull(qy.priority) => r.priority = Val(qy.priority)
        /\ ~IsNull(qy.status) => r.status = qy.status
        /\ ~IsNull(qy.q) =>
              \/ ILike(Val(r.todo_name), Val(qy.q))
              \/ ILike(Val(r.todo_description), Val(qy.q))
        /\ qy.overdue => ~IsNull(r.due_date) /\ Val(r.due_date) < now}

\* Query(ge=, le=, min_length=, max_length=) and the Literal types
ValidQuery(qy) ==
    /\ qy.limit >= LimitMin /\ qy.limit <= LimitMax
    /\ qy.offset >= 0
    /\ ~IsNull(qy.priority) => Val(qy.priority) \in Priority
    /\ ~IsNull(qy.q) => Len(Val(qy.q)) >= QMinLen /\ Len(Val(qy.q)) <= QMaxLen
    /\ qy.sort_by \in SortBy
    /\ qy.order \in OrderBy
    /\ qy.format \in ExportFormat

\* the strings of the model in the order of a binary collation
Collation ==
    <<"Clean house", "DONE", "IN_PROGRESS", "NEW", "Read", "Sports", "Study",
      "Work", "abc">>

StrRank(str) == CHOOSE i \in 1..Len(Collation) : Collation[i] = str

\* getattr(TodoModel, sort_by) as an integer that orders as the column
\* does; the database puts NULL below every value or above every value
SortKey(r, sort_by, nullsLow) ==
    CASE sort_by = "todo_id" -> r.todo_id
      [] sort_by = "todo_name" -> StrRank(Val(r.todo_name))
      [] sort_by = "priority" -> r.priority
      [] sort_by = "status" -> StrRank(Val(r.status))
      [] sort_by = "due_date" ->
            IF IsNull(r.due_date)
            THEN (IF nullsLow THEN -1 ELSE MaxTime + 1)
            ELSE Val(r.due_date)
      [] sort_by = "created_at" -> r.created_at
      [] sort_by = "updated_at" -> r.updated_at

\* an ordering that ignores the order parameter
OrderKeyAsc(S, sort_by, order, nullsLow) ==
    [r \in S |-> SortKey(r, sort_by, nullsLow)]

\* sort_col.desc() if order == "desc" else sort_col.asc(): the rows of S
\* with the integer each is ordered by, smaller first
OrderKey(S, sort_by, order, nullsLow) ==
    [r \in S |-> IF order = "desc"
                 THEN 0 - SortKey(r, sort_by, nullsLow)
                 ELSE SortKey(r, sort_by, nullsLow)]

\* query.order_by(...).offset(offset).limit(limit).all(): the rows in
\* order, the first offset of them skipped, at most limit of them taken;
\* rows with equal keys come in any order, so this is the set of the
\* sequences the database may return
RECURSIVE Page(_, _, _, _)
Page(S, key, offset, limit) ==
    IF S = {} \/ limit = 0 THEN {<<>>}
    ELSE LET firsts == {m \in S : \A x \in S : key[m] <= key[x]}
         IN UNION { IF offset > 0
                    THEN Page(S \ {m}, key, offset - 1, limit)
                    ELSE {<<m>> \o t : t \in Page(S \ {m}, key, 0, limit - 1)}
                    : m \in firsts }

\* GET /todos
list_todos(qy) ==
    /\ started
    /\ IF ~ValidQuery(qy)
       THEN Reply([Response("list", "", 0, <<>>, 422, <<>>) EXCEPT !.query = qy])
       ELSE \E nullsLow \in (IF qy.sort_by = "due_date" THEN BOOLEAN ELSE {TRUE}) :
              \E rows \in Page(Filtered(store, qy),
                               OrderKey(Filtered(store, qy), qy.sort_by, qy.order, nullsLow),
                               qy.offset, qy.limit) :
                 Reply([Response("list", "", 0, <<>>, 200, rows) EXCEPT !.query = qy])

\* GET /todos/export: the rows that are rendered, as JSON objects or as CSV
\* lines, in the order of todo_id
export_todos(qy) ==
    /\ started
    /\ IF ~ValidQuery(qy)
       THEN Reply([Response("export", "", 0, <<>>, 422, <<>>) EXCEPT !.query = qy])
       ELSE LET S == Visible(store, qy.include_deleted)
            IN \E todos \in Page(S, OrderKey(S, "todo_id", "asc", TRUE),
                                  0, Cardinality(S)) :
                 Reply([Response("export", "", 0, <<>>, 200, todos) EXCEPT !.query = qy])

\* GET /todos/stats
todos_stats(qy) ==
    /\ started
    /\ LET base == Visible(store, qy.include_deleted)
           total == Cardinality(base)
           high == Cardinality({r \in base : r.priority = HIGH})
           medium == Cardinality({r \in base : r.priority = MEDIUM})
           low == Cardinality({r \in base : r.priority = LOW})
       IN Reply([Response("stats", "", 0, <<>>, 200, <<>>) EXCEPT
                   !.query = qy,
                   !.stats = [total |-> total, high |-> high,
                              medium |-> medium, low |-> low]])

\* GET /todos/{todo_id}
get_todo(todo_id) ==
    /\ started
    /\ IF ~ValidPath(todo_id)
       THEN Reply(Response("get", "", todo_id, <<>>, 422, <<>>))
       ELSE IF Lookup(store, todo_id, FALSE) = {}
       THEN Reply(Response("get", "", todo_id, <<>>, 404, <<>>))
       ELSE LET todo == CHOOSE r \in Lookup(store, todo_id, FALSE) : TRUE
            IN Reply(Response("get", "", todo_id, <<>>, 200, <<todo>>))

-----------------------------------------------------------------------------
(* The specifications *)

\* the module is imported: create_all has made an empty table; the startup
\* hook has not run yet
Init ==
    /\ store = {}
    /\ now = 0
    /\ started = FALSE
    /\ writes = 0
    /\ resp = NoResp
    /\ snaps = {}

\* X-API-Key headers: the secret, the header absent, another string
Keys == {API_KEY, "", "wrong"}
BadKeys == Keys \ {API_KEY}

\* path ids the clients send: one that fails Path(ge=1), the seeded row
\* that has a due_date, and one that no row has
PathIds == {0, 4, NextId(store)}
ActiveIds == {r.todo_id : r \in {x \in store : ~x.is_deleted}}
DeletedIds == {r.todo_id : r \in {x \in store : x.is_deleted}}

Minimal == [todo_name |-> Some("abc"), todo_description |-> Some("d")]
Full == [todo_name |-> Some("abc"), todo_description |-> Some("d"),
         priority |-> Some(HIGH), status |-> Some("DONE"), due_date |-> Some(0)]

\* TodoCreate / TodoReplace bodies: valid ones and ones the schema rejects
BasePayloads ==
    { Minimal, Full,
      [Minimal EXCEPT !.todo_name = Some("ab")],
      [Full EXCEPT !.priority = Some(4)] }

\* TodoUpdate bodies: empty, single fields, explicit nulls, a rejected one
UpdatePayloads ==
    { <<>>,
      [status |-> Some("NEW")],
      [priority |-> Some(HIGH)],
      [due_date |-> Null],
      [todo_name |-> Some("abc"), due_date |-> Some(0)],
      [priority |-> Null],
      [todo_name |-> Null],
      [todo_description |-> Null],
      [status |-> Null],
      [todo_name |-> Some("ab")] }

StatusPayloads ==
    { [status |-> Some("NEW")], [status |-> Some("DONE")], [status |-> Some("BOGUS")] }

\* clients with and without the secret calling every mutating route
Next ==
    \/ Startup
    \/ Tick
    \/ \E d \in BasePayloads : create_todo(API_KEY, d) /\ writes' <= MaxWrites
    \/ \E i \in PathIds, d \in BasePayloads :
          replace_todo(API_KEY, i, d) /\ writes' <= MaxWrites
    \/ \E i \in PathIds, d \in UpdatePayloads :
          update_todo(API_KEY, i, d) /\ writes' <= MaxWrites
    \/ \E i \in PathIds, d \in StatusPayloads :
          update_todo_status(API_KEY, i, d) /\ writes' <= MaxWrites
    \/ \E i \in PathIds : delete_todo(API_KEY, i) /\ writes' <= MaxWrites
    \/ \E i \in PathIds : restore_todo(API_KEY, i) /\ writes' <= MaxWrites
    \/ \E k \in BadKeys : create_todo(k, Full) /\ writes' <= MaxWrites
    \/ \E k \in BadKeys, i \in PathIds : replace_todo(k, i, Full) /\ writes' <= MaxWrites
    \/ \E k \in BadKeys, i \in PathIds :
          update_todo(k, i, [priority |-> Some(HIGH)]) /\ writes' <= MaxWrites
    \/ \E k \in BadKeys, i \in PathIds :
          update_todo_status(k, i, [status |-> Some("DONE")]) /\ writes' <= MaxWrites
    \/ \E k \in BadKeys, i \in PathIds : delete_todo(k, i) /\ writes' <= MaxWrites
    \/ \E k \in BadKeys, i \in PathIds : restore_todo(k, i) /\ writes' <= MaxWrites
    \/ \E i \in PathIds : get_todo(i)

Spec == Init /\ [][Next]_vars

\* a client with the secret taking one row through its life
NextLife ==
    \/ Startup
    \/ Tick
    \/ create_todo(API_KEY, Minimal) /\ writes' <= MaxLife
    \/ \E i \in PathIds : replace_todo(API_KEY, i, Full) /\ writes' <= MaxLife
    \/ \E i \in PathIds, d \in {[priority |-> Some(HIGH)], [priority |-> Null]} :
          update_todo(API_KEY, i, d) /\ writes' <= MaxLife
    \/ \E i \in PathIds :
          update_todo_status(API_KEY, i, [status |-> Some("DONE")]) /\ writes' <= MaxLife
    \/ \E i \in PathIds : delete_todo(API_KEY, i) /\ writes' <= MaxLife
    \/ \E i \in PathIds : restore_todo(API_KEY, i) /\ writes' <= MaxLife
    \/ \E i \in PathIds : get_todo(i)

SpecLife == Init /\ [][NextLife]_vars

\* a client that soft-deletes active rows, restores deleted rows and creates
\* rows, across restarts of the process
NextSeed ==
    \/ Startup
    \/ Tick
    \/ create_todo(API_KEY, Minimal) /\ writes' <= MaxFlips
    \/ \E i \in ActiveIds : delete_todo(API_KEY, i) /\ writes' <= MaxFlips
    \/ \E i \in DeletedIds : restore_todo(API_KEY, i) /\ writes' <= MaxFlips

SpecSeed == Init /\ [][NextSeed]_vars

\* the queries of the reading clients: the second page of two rows on every
\* sort column in both orders (on the rows of status NEW for the columns on
\* which the seeded rows tie), the defaults, each filter, and rejected ones
TieColumns == {"due_date", "created_at", "updated_at"}

Queries ==
    { [NoQuery EXCEPT !.sort_by = sb, !.order = o, !.limit = 2, !.offset = 1,
                      !.status = IF sb \in TieColumns THEN Some("NEW") ELSE Null] :
        sb \in SortBy, o \in OrderBy }
    \cup
    { NoQuery,
      [NoQuery EXCEPT !.include_deleted = TRUE, !.limit = LimitMax],
      [NoQuery EXCEPT !.include_deleted = TRUE, !.limit = 1,
                      !.sort_by = "due_date", !.order = "desc"],
      [NoQuery EXCEPT !.priority = Some(MEDIUM)],
      [NoQuery EXCEPT !.q = Some("gym")],
      [NoQuery EXCEPT !.overdue = TRUE],
      [NoQuery EXCEPT !.limit = 0],
      [NoQuery EXCEPT !.sort_by = "bogus"] }

ExportQueries ==
    { [NoQuery EXCEPT !.include_deleted = d, !.format = f] :
        d \in BOOLEAN, f \in ExportFormat \cup {"xml"} }

StatsQueries == { [NoQuery EXCEPT !.include_deleted = d] : d \in BOOLEAN }

NextRead ==
    \/ Startup
    \/ Tick
    \/ \E d \in {Full, [Full EXCEPT !.priority = Some(4)]} :
          create_todo(API_KEY, d) /\ writes' <= MaxReadWrites
    \/ \E i \in PathIds, d \in {[priority |-> Some(HIGH)], [priority |-> Null]} :
          update_todo(API_KEY, i, d) /\ writes' <= MaxReadWrites
    \/ \E i \in PathIds : delete_todo(API_KEY, i) /\ writes' <= MaxReadWrites
    \/ \E i \in PathIds : restore_todo(API_KEY, i) /\ writes' <= MaxReadWrites
    \/ \E qy \in Queries : list_todos(qy)
    \/ \E qy \in ExportQueries : export_todos(qy)
    \/ \E qy \in StatsQueries : todos_stats(qy)
    \/ \E i \in PathIds : get_todo(i)

SpecRead == Init /\ [][NextRead]_vars

-----------------------------------------------------------------------------
(* Properties *)

MutatingOps == {"create", "replace", "update", "status", "delete", "restore"}
UpdatingOps == {"replace", "update", "status"}

Ids(s) == {r.todo_id : r \in s}
RowOf(s, id) == CHOOSE r \in s : r.todo_id = id
IsActive(s, id) == \E r \in s : r.todo_id = id /\ ~r.is_deleted
Rows(body) == {body[i] : i \in 1..Len(body)}

\* the value of a payload field as the row holds it
Column(row, f) ==
    CASE f = "todo_name" -> row.todo_name
      [] f = "todo_description" -> row.todo_description
      [] f = "priority" -> Some(row.priority)
      [] f = "status" -> row.status
      [] f = "due_date" -> row.due_date

\* the request passes the validation of its path parameter and its body
RequestValid(r) ==
    /\ r.todo_id >= 1
    /\ r.op = "replace" => ValidBase(r.data)
    /\ r.op = "update" => ValidUpdate(r.data)
    /\ r.op = "status" => ValidStatusUpdate(r.data)

(* C1: a mutating request whose X-API-Key header is absent or is not the
   secret gets 401 and leaves the table as it was, whatever its path id:
   the id of an active row, of a soft-deleted row, of no row, or an id that
   fails validation. *)
UnauthorizedRejected ==
    [][ (resp'.op \in MutatingOps /\ resp'.key # API_KEY)
           => (resp'.status = 401 /\ store' = store) ]_vars

UnauthorizedOnDeletedRow ==
    /\ resp.op = "delete"
    /\ resp.key = ""
    /\ resp.status = 401
    /\ resp.todo_id \in DeletedIds

(* C2: a list, an export or a stats call with include_deleted=false never
   returns or counts a soft-deleted row, and GET /todos/{id} never returns
   one; with include_deleted=true the export holds every row, stats counts
   every row, and an unfiltered list with room for every row holds every
   row. *)
SoftDeletedHidden ==
    /\ (resp.op \in {"list", "export"} /\ resp.status = 200
          /\ ~resp.query.include_deleted)
          => \A i \in 1..Len(resp.body) : ~resp.body[i].is_deleted
    /\ (resp.op = "stats" /\ ~resp.query.include_deleted)
          => resp.stats.total = Cardinality({r \in store : ~r.is_deleted})
    /\ (resp.op = "export" /\ resp.status = 200 /\ ~resp.query.include_deleted)
          => Rows(resp.body) = {r \in store : ~r.is_deleted}
    /\ (resp.op = "get" /\ resp.status = 200)
          => (~resp.body[1].is_deleted /\ resp.body[1] \in store)
    /\ (resp.op = "export" /\ resp.status = 200 /\ resp.query.include_deleted)
          => Rows(resp.body) = store
    /\ (resp.op = "stats" /\ resp.query.include_deleted)
          => resp.stats.total = Cardinality(store)
    /\ (resp.op = "list" /\ resp.status = 200 /\ resp.query.include_deleted
          /\ IsNull(resp.query.priority) /\ IsNull(resp.query.status)
          /\ IsNull(resp.query.q) /\ ~resp.query.overdue
          /\ resp.query.offset = 0 /\ resp.query.limit >= Cardinality(store))
          => Rows(resp.body) = store

DeletedHiddenFromExport ==
    /\ resp.op = "export"
    /\ resp.status = 200
    /\ ~resp.query.include_deleted
    /\ DeletedIds # {}
    /\ Len(resp.body) = Cardinality(store) - 1

(* C3: an authorized restore of a soft-deleted row gives the row as it was
   before its delete in every field but updated_at, with is_deleted false,
   and the row is again what GET /todos/{id} finds and is in the default
   listing. *)
DeleteRestoreRoundTrip ==
    [][ (resp'.op = "restore" /\ resp'.status = 200 /\ store' # store)
           => \E sn \in snaps :
                 LET x == resp'.body[1]
                 IN /\ sn.todo_id = resp'.todo_id
                    /\ ~sn.is_deleted
                    /\ [x EXCEPT !.updated_at = sn.updated_at] = sn
                    /\ {r \in store' : r.todo_id = x.todo_id /\ ~r.is_deleted} = {x}
                    /\ \A rows \in Page(Filtered(store', NoQuery),
                                        OrderKey(Filtered(store', NoQuery),
                                                 NoQuery.sort_by, NoQuery.order, TRUE),
                                        NoQuery.offset, NoQuery.limit) :
                          x \in Rows(rows) ]_vars

RestoredAfterDelete ==
    /\ resp.op = "restore"
    /\ resp.status = 200
    /\ resp.changed
    /\ resp.body[1].updated_at > resp.body[1].created_at

(* C4: an authorized, valid get, replace, partial update, status update or
   delete of an id that no row has or that a soft-deleted row has gets 404
   and leaves the table as it was, and these five succeed only on an active
   row; a restore of a soft-deleted row succeeds and makes it active, and a
   restore gets 404 exactly when no row has the id. *)
NotFoundOnAbsentOrDeleted ==
    [][ resp' # resp =>
          LET r == resp'
          IN /\ (r.op \in {"get", "replace", "update", "status", "delete"}
                   /\ (r.op = "get" \/ r.key = API_KEY)
                   /\ RequestValid(r)
                   /\ ~IsActive(store, r.todo_id))
                   => (r.status = 404 /\ store' = store)
             /\ (r.op \in {"get", "replace", "update", "status", "delete"}
                   /\ r.status \in {200, 204})
                   => IsActive(store, r.todo_id)
             /\ (r.op = "restore" /\ r.key = API_KEY /\ r.todo_id >= 1)
                   => IF r.todo_id \in Ids(store)
                      THEN r.status = 200 /\ IsActive(store', r.todo_id)
                      ELSE r.status = 404 /\ store' = store ]_vars

SecondDeleteNotFound ==
    /\ resp.op = "delete"
    /\ resp.key = API_KEY
    /\ resp.status = 404
    /\ resp.todo_id \in DeletedIds

(* C5: the four numbers of a stats response satisfy
   total = high + medium + low, total being the number of rows the
   include_deleted flag selects, and every stored priority is 1, 2 or 3. *)
StatsAddUp ==
    /\ resp.op = "stats" =>
          /\ resp.stats.total = resp.stats.high + resp.stats.medium + resp.stats.low
          /\ resp.stats.total =
                Cardinality({r \in store : resp.query.include_deleted \/ ~r.is_deleted})
    /\ \A r \in store : r.priority \in {1, 2, 3}

StatsAfterPriorityChange ==
    /\ resp.op = "stats"
    /\ resp.stats.high = 2
    /\ resp.stats.total >= 5

(* C6: a successful create adds one row whose id is positive and is the id
   of no row of the table, soft-deleted rows included, and whose created_at
   equals its updated_at; no step removes a row, and no two rows ever share
   an id, the rows of a later startup seed included. *)
FreshIds ==
    [][ /\ (resp'.op = "create" /\ resp'.status = 201 /\ resp' # resp)
              => LET n == resp'.body[1]
                 IN /\ n.todo_id > 0
                    /\ n.todo_id \notin Ids(store)
                    /\ n.created_at = n.updated_at
                    /\ store' = store \cup {n}
        /\ Ids(store) \subseteq Ids(store')
        /\ Cardinality(Ids(store')) = Cardinality(store') ]_vars

CreateBesideDeleted ==
    /\ resp.op = "create"
    /\ resp.status = 201
    /\ resp.body[1].todo_id \notin DeletedIds
    /\ \E d \in DeletedIds : d < resp.body[1].todo_id

(* C7: an authorized, valid partial update of an active row succeeds, sets
   every field that is in the payload to the value given, an explicit null
   clearing the field, and leaves every field that is not in the payload as
   it was. *)
PatchAppliesEveryField ==
    [][ (resp' # resp /\ resp'.op = "update" /\ resp'.key = API_KEY
           /\ RequestValid(resp') /\ IsActive(store, resp'.todo_id))
           => /\ resp'.status = 200
              /\ \A f \in PayloadFields :
                    Column(resp'.body[1], f) =
                       IF Has(resp'.data, f) THEN resp'.data[f]
                       ELSE Column(RowOf(store, resp'.todo_id), f) ]_vars

(* C8: a list response holds the rows at positions offset+1 .. offset+limit
   of the filtered rows sorted on the sort_by column: at most limit rows,
   each at a position that its key allows, non-decreasing for asc and
   non-increasing for desc, NULL due dates being put below or above every
   date. *)
ListIsSortedPage ==
    [][ (resp' # resp /\ resp'.op = "list" /\ resp'.status = 200)
           => LET qy == resp'.query
                  body == resp'.body
                  F == Filtered(store, qy)
                  rest == IF Cardinality(F) > qy.offset
                          THEN Cardinality(F) - qy.offset ELSE 0
              IN /\ Len(body) <= qy.limit
                 /\ Len(body) = IF rest < qy.limit THEN rest ELSE qy.limit
                 /\ Rows(body) \subseteq F
                 /\ Cardinality(Rows(body)) = Len(body)
                 /\ \E nl \in BOOLEAN :
                       LET k(x) == SortKey(x, qy.sort_by, nl)
                       IN /\ \A i \in 1..Len(body) :
                                LET before ==
                                      {x \in F : IF qy.order = "desc"
                                                 THEN k(x) > k(body[i])
                                                 ELSE k(x) < k(body[i])}
                                    upto ==
                                      {x \in F : IF qy.order = "desc"
                                                 THEN k(x) >= k(body[i])
                                                 ELSE k(x) <= k(body[i])}
                                IN /\ Cardinality(before) < qy.offset + i
                                   /\ qy.offset + i <= Cardinality(upto)
                          /\ \A i \in 1..(Len(body) - 1) :
                                IF qy.order = "desc"
                                THEN k(body[i]) >= k(body[i + 1])
                                ELSE k(body[i]) <= k(body[i + 1]) ]_vars

SortedPageWithNullDueDate ==
    /\ resp.op = "list"
    /\ resp.status = 200
    /\ resp.query.sort_by = "due_date"
    /\ Len(resp.body) = 2
    /\ IsNull(resp.body[1].due_date) # IsNull(resp.body[2].due_date)

(* C9, as stated: every successful replace, partial update and status
   update sets the row's updated_at to the time of the call; created_at
   never changes and created_at <= updated_at. *)
EveryUpdateRefreshes ==
    [][ /\ (resp' # resp /\ resp'.op \in UpdatingOps /\ resp'.status = 200)
              => resp'.body[1].updated_at = now
        /\ \A r \in store : \E r2 \in store' :
              r2.todo_id = r.todo_id /\ r2.created_at = r.created_at
        /\ \A r \in store' : r.created_at <= r.updated_at ]_vars

(* C9, amended: a successful replace, partial update or status update that
   changes the value of a column sets the row's updated_at to the time of
   the call, and one that changes no column leaves updated_at as it was;
   created_at never changes and created_at <= updated_at. *)
UpdateRefreshesWhenChanged ==
    [][ /\ (resp' # resp /\ resp'.op \in UpdatingOps /\ resp'.status = 200)
              => LET old == RowOf(store, resp'.todo_id)
                     new == resp'.body[1]
                 IN /\ new \in store'
                    /\ IF [new EXCEPT !.updated_at = old.updated_at] # old
                       THEN new.updated_at = now
                       ELSE new = old
        /\ \A r \in store : \E r2 \in store' :
              r2.todo_id = r.todo_id /\ r2.created_at = r.created_at
        /\ \A r \in store' : r.created_at <= r.updated_at ]_vars

NoOpUpdateKeepsStamp ==
    /\ resp.op = "update"
    /\ resp.status = 200
    /\ resp.data = <<>>
    /\ ~resp.changed
    /\ resp.body[1].updated_at < now

(* C10: a startup inserts exactly five rows, with ids no row has, when the
   table holds no active row, and changes nothing otherwise; it never
   changes or removes a row, and it leaves an active row in the table, so
   that a second startup right after it changes nothing. *)
SeedOnlyWithoutActiveRows ==
    [][ resp'.op = "startup"
           => /\ IF \E r \in store : ~r.is_deleted
                 THEN store' = store
                 ELSE /\ store \subseteq store'
                      /\ Cardinality(store' \ store) = 5
                      /\ Cardinality(Ids(store') \ Ids(store)) = 5
                      /\ \A r \in store' \ store : ~r.is_deleted
              /\ \E r \in store' : ~r.is_deleted
              /\ seed_data(store') = store' ]_vars

SeededAgainAfterAllDeleted ==
    /\ resp.op = "startup"
    /\ Cardinality(store) = 10
    /\ Cardinality(DeletedIds) = 5

=============================================================================
